---- MODULE Spec2Model ----
(***************************************************************************)
(* Indicator computations of the trade-bot scripts (tradingbot.py,         *)
(* app10.py, app11.py) as operators over an OHLCV frame, and one action    *)
(* per indicator function that applies it to the fetched frame.            *)
(*                                                                         *)
(* Floating-point values are modelled as exact rationals plus the IEEE     *)
(* specials NaN, +inf and -inf; rounding error is not modelled.  Series    *)
(* are 1-based sequences: index i of the source is position i+1 here.      *)
(***************************************************************************)
EXTENDS Integers, Sequences, FiniteSets, TLC

VARIABLES df, op, args, ret

vars == <<df, op, args, ret>>

(***************************************************************************)
(* Bounds of the model.                                                    *)
(***************************************************************************)
MaxLen == 4        \* longest frame (bars)
MaxBars == 3       \* longest frame whose High, Low and Close all vary
MaxPrice == 1      \* prices range over 0..MaxPrice
MaxVol == 2        \* volumes range over 0..MaxVol
MaxClose == 2      \* closes of flat bars range over 0..MaxClose
MaxWin == 3        \* largest window / span / lookback tried
MaxAdxPeriod == 2  \* largest ADX period tried
MaxSignal == 2     \* largest MACD signal span (and app10 MACD span) tried
MaxDpoLen == 6     \* longest frame given to add_dpo
MaxDpoPeriod == 5  \* largest DPO period tried

(***************************************************************************)
(* float: a rational n/d in lowest terms (d > 0), or NaN, or +/-inf.       *)
(***************************************************************************)
Abs(a) == IF a < 0 THEN -a ELSE a

Sgn(a) == IF a < 0 THEN -1 ELSE IF a > 0 THEN 1 ELSE 0

RECURSIVE GCD(_, _)
GCD(a, b) == IF b = 0 THEN a ELSE GCD(b, a % b)

NaN == [t |-> "nan", n |-> 0, d |-> 1]

Inf(s) == [t |-> "inf", n |-> s, d |-> 1]

Num(n, d) ==
    IF d = 1 THEN [t |-> "num", n |-> n, d |-> 1]
    ELSE LET g == GCD(Abs(n), Abs(d))
         IN  [t |-> "num", n |-> (Sgn(d) * n) \div g, d |-> Abs(d) \div g]

Float(k) == [t |-> "num", n |-> k, d |-> 1]

IsNaN(x) == x.t = "nan"

IsNum(x) == x.t = "num"

IsInf(x) == x.t = "inf"

IsZero(x) == x.t = "num" /\ x.n = 0

FNeg(x) == IF IsNaN(x) THEN NaN ELSE [x EXCEPT !.n = -x.n]

FAbs(x) == IF IsNaN(x) THEN NaN ELSE [x EXCEPT !.n = Abs(x.n)]

FAdd(x, y) ==
    IF IsNaN(x) \/ IsNaN(y) THEN NaN
    ELSE IF IsInf(x) THEN (IF IsInf(y) /\ y.n # x.n THEN NaN ELSE x)
    ELSE IF IsInf(y) THEN y
    ELSE LET g == GCD(x.d, y.d)
         IN  Num(x.n * (y.d \div g) + y.n * (x.d \div g), (x.d \div g) * y.d)

FSub(x, y) == FAdd(x, FNeg(y))

\* (xn/xd) * (yn/yd), cancelling across before multiplying
MulQ(xn, xd, yn, yd) ==
    LET g1 == GCD(Abs(xn), yd)
        g2 == GCD(Abs(yn), xd)
    IN  Num((xn \div g1) * (yn \div g2), (xd \div g2) * (yd \div g1))

FMul(x, y) ==
    IF IsNaN(x) \/ IsNaN(y) THEN NaN
    ELSE IF IsInf(x) \/ IsInf(y)
         THEN (IF IsZero(x) \/ IsZero(y) THEN NaN ELSE Inf(Sgn(x.n) * Sgn(y.n)))
    ELSE MulQ(x.n, x.d, y.n, y.d)

\* IEEE division as numpy/pandas perform it: x/0 is +/-inf, 0/0 is NaN.
FDiv(x, y) ==
    IF IsNaN(x) \/ IsNaN(y) THEN NaN
    ELSE IF IsInf(x) THEN (IF IsInf(y) THEN NaN
                           ELSE Inf(x.n * (IF y.n < 0 THEN -1 ELSE 1)))
    ELSE IF IsInf(y) THEN Float(0)
    ELSE IF y.n = 0 THEN (IF x.n = 0 THEN NaN ELSE Inf(Sgn(x.n)))
    ELSE MulQ(x.n, x.d, Sgn(y.n) * y.d, Abs(y.n))

\* a/b < c/d for b, d > 0, by integer parts and then the remainders' reciprocals
\* (no product of numerators and denominators is formed)
RECURSIVE LtQ(_, _, _, _)
LtQ(a, b, c, d) ==
    IF a \div b # c \div d THEN a \div b < c \div d
    ELSE IF c % d = 0 THEN FALSE
    ELSE IF a % b = 0 THEN TRUE
    ELSE LtQ(d, c % d, b, a % b)

\* Comparisons; any comparison with NaN is false.
FLt(x, y) ==
    /\ ~IsNaN(x) /\ ~IsNaN(y)
    /\ IF IsInf(x) THEN x.n = -1 /\ ~(IsInf(y) /\ y.n = -1)
       ELSE IF IsInf(y) THEN y.n = 1
       ELSE LtQ(x.n, x.d, y.n, y.d)

FLe(x, y) == ~IsNaN(x) /\ ~IsNaN(y) /\ ~FLt(y, x)

FGt(x, y) == FLt(y, x)

FMax(x, y) == IF FLt(x, y) THEN y ELSE x

FMin(x, y) == IF FLt(y, x) THEN y ELSE x

(***************************************************************************)
(* pandas / numpy Series operations.                                       *)
(***************************************************************************)
\* The sequence <<F(1), ..., F(n)>>.
RECURSIVE MkSeq(_, _)
MkSeq(F(_), n) == IF n <= 0 THEN <<>> ELSE Append(MkSeq(F, n - 1), F(n))

Column(frame, name) == MkSeq(LAMBDA i : Float(frame[i][name]), Len(frame))

RECURSIVE SumRange(_, _, _)
SumRange(x, lo, hi) ==
    IF lo > hi THEN Float(0) ELSE FAdd(SumRange(x, lo, hi - 1), x[hi])

\* Series.replace(0, np.nan)
Replace0(x) == MkSeq(LAMBDA i : IF IsZero(x[i]) THEN NaN ELSE x[i], Len(x))

\* A rolling window ending at i holds `window` observations, none of them NaN
\* (min_periods defaults to the window).
WindowFull(x, window, i) ==
    /\ i >= window
    /\ \A j \in (i - window + 1)..i : ~IsNaN(x[j])

\* Series.rolling(window).sum()
RollingSum(x, window) ==
    MkSeq(LAMBDA i :
            IF WindowFull(x, window, i) THEN SumRange(x, i - window + 1, i) ELSE NaN,
          Len(x))

\* A faulty rolling mean with min_periods=1: on the warm-up indexes it averages
\* the observations there are.
RollingMeanMinPeriods1(x, window) ==
    MkSeq(LAMBDA i :
            LET lo == IF i >= window THEN i - window + 1 ELSE 1
            IN  IF \A j \in lo..i : ~IsNaN(x[j])
                THEN FDiv(SumRange(x, lo, i), Float(i - lo + 1))
                ELSE NaN,
          Len(x))

\* Series.rolling(window).mean()
RollingMean(x, window) ==
    MkSeq(LAMBDA i :
            IF WindowFull(x, window, i)
            THEN FDiv(SumRange(x, i - window + 1, i), Float(window))
            ELSE NaN,
          Len(x))

\* Series.rolling(window).var(ddof): undefined unless more than ddof observations.
RollingVar(x, window, ddof) ==
    LET m == RollingMean(x, window)
        sq(i) == MkSeq(LAMBDA j : FMul(FSub(x[j], m[i]), FSub(x[j], m[i])), Len(x))
    IN  MkSeq(LAMBDA i :
                IF WindowFull(x, window, i) /\ window > ddof
                THEN FDiv(SumRange(sq(i), i - window + 1, i), Float(window - ddof))
                ELSE NaN,
              Len(x))

\* Series.shift(k)
Shift(x, k) == MkSeq(LAMBDA i : IF i <= k THEN NaN ELSE x[i - k], Len(x))

\* alpha = 2/(span+1)
Alpha(span) == Num(2, span + 1)

\* Series.ewm(span=span, adjust=False).mean(): y[0] = x[0],
\* y[i] = a*x[i] + (1-a)*y[i-1].  (No input here holds a NaN.)
RECURSIVE EwmRecursive(_, _, _)
EwmRecursive(x, span, i) ==
    IF i <= 0 THEN <<>>
    ELSE IF i = 1 THEN <<x[1]>>
    ELSE LET y == EwmRecursive(x, span, i - 1)
         IN  Append(y, FAdd(FMul(Alpha(span), x[i]),
                            FMul(FSub(Float(1), Alpha(span)), y[i - 1])))

\* Series.ewm(span=span).mean() (adjust=True, the default): the weighted mean
\* y[i] = sum_j (1-a)^j x[i-j] / sum_j (1-a)^j over j = 0..i; the numerators
\* and denominators are built as pandas builds them, one step per bar.
RECURSIVE EwmWeightedSums(_, _, _)
EwmWeightedSums(x, span, i) ==
    IF i <= 0 THEN <<>>
    ELSE IF i = 1 THEN << [num |-> x[1], den |-> Float(1)] >>
    ELSE LET w == EwmWeightedSums(x, span, i - 1)
             decay == FSub(Float(1), Alpha(span))
         IN  Append(w, [num |-> FAdd(x[i], FMul(decay, w[i - 1].num)),
                        den |-> FAdd(Float(1), FMul(decay, w[i - 1].den))])

EwmMean(x, span, adjust) ==
    IF adjust
    THEN LET w == EwmWeightedSums(x, span, Len(x))
         IN  MkSeq(LAMBDA i : FDiv(w[i].num, w[i].den), Len(x))
    ELSE EwmRecursive(x, span, Len(x))

(***************************************************************************)
(* Square roots.  sqrt(p/q) is kept exactly as c * sqrt(r), c a rational    *)
(* and r a square-free integer; a band value is a + b*sqrt(r).             *)
(***************************************************************************)
\* The largest k (from k on) whose square divides m.
RECURSIVE SqPart(_, _)
SqPart(m, k) ==
    IF k * k > m THEN 1
    ELSE IF m % (k * k) = 0 THEN k * SqPart(m \div (k * k), k)
    ELSE SqPart(m, k + 1)

\* np.sqrt of a non-negative value: [c, r] with value c*sqrt(r).
FSqrt(x) ==
    IF ~IsNum(x) \/ x.n < 0 THEN [c |-> NaN, r |-> 1]
    ELSE IF x.n = 0 THEN [c |-> Float(0), r |-> 1]
    ELSE LET m == x.n * x.d
             k == SqPart(m, 2)
         IN  [c |-> Num(k, x.d), r |-> m \div (k * k)]

\* a + b*sqrt(r) in canonical form
Surd(a, b, r) ==
    IF IsNaN(a) \/ IsNaN(b) THEN [a |-> NaN, b |-> Float(0), r |-> 1]
    ELSE IF IsZero(b) \/ r = 1 THEN [a |-> FAdd(a, b), b |-> Float(0), r |-> 1]
    ELSE [a |-> a, b |-> b, r |-> r]

SIsNaN(s) == IsNaN(s.a)

\* the sign of a + b*sqrt(r), both parts finite
SSign(s) ==
    IF Sgn(s.a.n) * Sgn(s.b.n) >= 0
    THEN (IF s.a.n # 0 THEN Sgn(s.a.n) ELSE Sgn(s.b.n))
    ELSE LET a2 == FMul(s.a, s.a)
             b2r == FMul(FMul(s.b, s.b), Float(s.r))
         IN  IF FLt(b2r, a2) THEN Sgn(s.a.n) ELSE Sgn(s.b.n)

\* x - y for band values over the same radicand
SSub(x, y) ==
    IF SIsNaN(x) \/ SIsNaN(y) THEN Surd(NaN, NaN, 1)
    ELSE Surd(FSub(x.a, y.a), FSub(x.b, y.b), IF IsZero(x.b) THEN y.r ELSE x.r)

\* s / c as pandas divides: a zero divisor gives +/-inf, 0/0 gives NaN
SDiv(s, c) ==
    IF SIsNaN(s) \/ IsNaN(c) THEN Surd(NaN, NaN, 1)
    ELSE IF IsZero(c)
    THEN (IF SSign(s) = 0 THEN Surd(NaN, NaN, 1) ELSE Surd(Inf(SSign(s)), Float(0), 1))
    ELSE Surd(FDiv(s.a, c), FDiv(s.b, c), s.r)

\* Series.rolling(window).std(ddof)
RollingStd(x, window, ddof) ==
    LET v == RollingVar(x, window, ddof)
    IN  MkSeq(LAMBDA i : FSqrt(v[i]), Len(x))

(***************************************************************************)
(* The frame fetched from the data source: bars in time order, each with   *)
(* Low <= Close <= High and a non-negative volume.                         *)
(***************************************************************************)
ValidBar(b) == b.Low <= b.Close /\ b.Close <= b.High /\ b.Volume >= 0

Bar(h, l, c, v) == [High |-> h, Low |-> l, Close |-> c, Volume |-> v]

SeqsUpTo(S, n) == UNION { [1..k -> S] : k \in 0..n }

(***************************************************************************)
(* tradingbot.py: the only gate between the download and the indicators:   *)
(* "if df.empty: st.error(...); st.stop()".                                *)
(***************************************************************************)
df_empty(frame) == Len(frame) = 0

(***************************************************************************)
(* tradingbot.py: add_adx                                                  *)
(***************************************************************************)
\* A faulty padding, list(values) + [np.nan]*pad_len: the values slide to the
\* front of the index and the warm-up gap moves to the end.
PadBack(pad_len, x) ==
    MkSeq(LAMBDA i : IF i <= Len(x) THEN x[i] ELSE NaN,
          (IF pad_len > 0 THEN pad_len ELSE 0) + Len(x))

\* [np.nan]*pad_len + list(values)
PadFront(pad_len, x) ==
    MkSeq(LAMBDA i : IF i <= pad_len THEN NaN ELSE x[i - pad_len],
          (IF pad_len > 0 THEN pad_len ELSE 0) + Len(x))

AllNaN(n) == MkSeq(LAMBDA i : NaN, n)

\* pd.Series(data, index=frame.index) raises ValueError unless the lengths agree.
SeriesOnIndex(data, frame) == Len(data) = Len(frame)

\* tr = max(high[1:]-low[1:], |high[1:]-close[:-1]|, |low[1:]-close[:-1]|)
TrueRange(high, low, close) ==
    MkSeq(LAMBDA k : FMax(FMax(FSub(high[k + 1], low[k + 1]),
                               FAbs(FSub(high[k + 1], close[k]))),
                          FAbs(FSub(low[k + 1], close[k]))),
          Len(close) - 1)

\* np.where((up>down)&(up>0), up, 0.0) with up = high[1:]-high[:-1], down = low[:-1]-low[1:]
PlusDM(high, low) ==
    MkSeq(LAMBDA k :
            LET up == FSub(high[k + 1], high[k])
                down == FSub(low[k], low[k + 1])
            IN  IF FGt(up, down) /\ FGt(up, Float(0)) THEN up ELSE Float(0),
          Len(high) - 1)

\* np.where((down>up)&(down>0), down, 0.0)
MinusDM(high, low) ==
    MkSeq(LAMBDA k :
            LET up == FSub(high[k + 1], high[k])
                down == FSub(low[k], low[k + 1])
            IN  IF FGt(down, up) /\ FGt(down, Float(0)) THEN down ELSE Float(0),
          Len(high) - 1)

\* 100*(dm_smooth/tr_smooth.replace(0,np.nan))
DI(dm_smooth, tr_smooth) ==
    LET tr_nz == Replace0(tr_smooth)
    IN  MkSeq(LAMBDA k : FMul(Float(100), FDiv(dm_smooth[k], tr_nz[k])), Len(tr_smooth))

\* A faulty DX that forgets np.abs: 100*(plus_di-minus_di)/(plus_di+minus_di)
DXSigned(plus_di, minus_di) ==
    LET di_sum == Replace0(MkSeq(LAMBDA k : FAdd(plus_di[k], minus_di[k]), Len(plus_di)))
    IN  MkSeq(LAMBDA k :
                FDiv(FMul(Float(100), FSub(plus_di[k], minus_di[k])), di_sum[k]),
              Len(plus_di))

\* 100*np.abs(plus_di-minus_di)/(plus_di+minus_di).replace(0,np.nan)
DX(plus_di, minus_di) ==
    LET di_sum == Replace0(MkSeq(LAMBDA k : FAdd(plus_di[k], minus_di[k]), Len(plus_di)))
    IN  MkSeq(LAMBDA k :
                FDiv(FMul(Float(100), FAbs(FSub(plus_di[k], minus_di[k]))), di_sum[k]),
              Len(plus_di))

\* len(df.index) - len(adx)
PadLen(frame, adx) == Len(frame) - Len(adx)

add_adx(frame, period) ==
    LET n == Len(frame)
        high == Column(frame, "High")
        low == Column(frame, "Low")
        close == Column(frame, "Close")
        tr_smooth == RollingSum(TrueRange(high, low, close), period)
        plus_smooth == RollingSum(PlusDM(high, low), period)
        minus_smooth == RollingSum(MinusDM(high, low), period)
        plus_di == DI(plus_smooth, tr_smooth)
        minus_di == DI(minus_smooth, tr_smooth)
        adx == RollingMean(DX(plus_di, minus_di), period)
        pad_len == PadLen(frame, adx)
        plus_di_full == PadFront(pad_len, plus_di)
        minus_di_full == PadFront(pad_len, minus_di)
        adx_full == PadFront(pad_len, adx)
    IN  IF n < 2
        THEN [status |-> "ok", plus_di |-> AllNaN(n), minus_di |-> AllNaN(n),
              adx |-> AllNaN(n)]
        ELSE IF SeriesOnIndex(plus_di_full, frame) /\ SeriesOnIndex(minus_di_full, frame)
                /\ SeriesOnIndex(adx_full, frame)
        THEN [status |-> "ok", plus_di |-> plus_di_full, minus_di |-> minus_di_full,
              adx |-> adx_full]
        ELSE [status |-> "ValueError", plus_di |-> <<>>, minus_di |-> <<>>, adx |-> <<>>]

(***************************************************************************)
(* tradingbot.py: add_bollinger, add_macd, add_dpo, add_cvo,               *)
(* fibonacci_levels                                                        *)
(***************************************************************************)
\* A faulty add_bollinger with the signs of the two bands exchanged:
\* upper = ma - std*num_std, lower = ma + std*num_std
add_bollinger_swapped(frame, period, num_std) ==
    LET close == Column(frame, "Close")
        ma == RollingMean(close, period)
        std == RollingStd(close, period, 1)
        n == Len(frame)
        upper == MkSeq(LAMBDA i : Surd(ma[i], FNeg(FMul(std[i].c, num_std)), std[i].r), n)
        lower == MkSeq(LAMBDA i : Surd(ma[i], FMul(std[i].c, num_std), std[i].r), n)
    IN  [status |-> "ok", upper |-> upper, ma |-> ma, lower |-> lower]

add_bollinger(frame, period, num_std) ==
    LET close == Column(frame, "Close")
        ma == RollingMean(close, period)
        std == RollingStd(close, period, 1)
        n == Len(frame)
        upper == MkSeq(LAMBDA i : Surd(ma[i], FMul(std[i].c, num_std), std[i].r), n)
        lower == MkSeq(LAMBDA i : Surd(ma[i], FNeg(FMul(std[i].c, num_std)), std[i].r), n)
    IN  [status |-> "ok", upper |-> upper, ma |-> ma, lower |-> lower]

\* A faulty add_macd whose histogram is taken the other way round:
\* macd_hist = macd_signal - macd
add_macd_hist_reversed(frame, fast, slow, signal) ==
    LET close == Column(frame, "Close")
        ema_fast == EwmMean(close, fast, FALSE)
        ema_slow == EwmMean(close, slow, FALSE)
        macd == MkSeq(LAMBDA i : FSub(ema_fast[i], ema_slow[i]), Len(frame))
        macd_signal == EwmMean(macd, signal, FALSE)
        macd_hist == MkSeq(LAMBDA i : FSub(macd_signal[i], macd[i]), Len(frame))
    IN  [status |-> "ok", macd |-> macd, macd_signal |-> macd_signal,
         macd_hist |-> macd_hist]

add_macd(frame, fast, slow, signal) ==
    LET close == Column(frame, "Close")
        ema_fast == EwmMean(close, fast, FALSE)
        ema_slow == EwmMean(close, slow, FALSE)
        macd == MkSeq(LAMBDA i : FSub(ema_fast[i], ema_slow[i]), Len(frame))
        macd_signal == EwmMean(macd, signal, FALSE)
        macd_hist == MkSeq(LAMBDA i : FSub(macd[i], macd_signal[i]), Len(frame))
    IN  [status |-> "ok", macd |-> macd, macd_signal |-> macd_signal,
         macd_hist |-> macd_hist]

\* A faulty shift that forgets the + 1: int(period/2)
DpoShiftHalf(period) == period \div 2

\* int(period/2 + 1)
DpoShift(period) == (period \div 2) + 1

add_dpo(frame, period) ==
    LET close == Column(frame, "Close")
        shift == DpoShift(period)
        sma == RollingMean(close, period)
        shifted == Shift(close, shift)
    IN  [status |-> "ok",
         dpo |-> MkSeq(LAMBDA i : FSub(shifted[i], sma[i]), Len(frame))]

\* A faulty CVO that divides by vol_long as it is, without .replace(0, np.nan)
CvoRatioUnguarded(vol_short, vol_long) ==
    MkSeq(LAMBDA i :
            FDiv(FMul(Float(100), FSub(vol_short[i], vol_long[i])), vol_long[i]),
          Len(vol_long))

\* 100.0 * (vol_short - vol_long)/vol_long.replace(0, np.nan)
CvoRatio(vol_short, vol_long) ==
    LET den == Replace0(vol_long)
    IN  MkSeq(LAMBDA i :
                FDiv(FMul(Float(100), FSub(vol_short[i], vol_long[i])), den[i]),
              Len(vol_long))

add_cvo(frame, short, long) ==
    LET volume == Column(frame, "Volume")
        vol_short == EwmMean(volume, short, FALSE)
        vol_long == EwmMean(volume, long, FALSE)
    IN  [status |-> "ok", cvo |-> CvoRatio(vol_short, vol_long),
         vol_short |-> vol_short, vol_long |-> vol_long]

\* int(lookback) of a whole number
int(x) == x

\* df.tail(n)
DfTail(frame, n) ==
    IF n >= Len(frame) THEN frame ELSE SubSeq(frame, Len(frame) - n + 1, Len(frame))

RECURSIVE SeqMax(_, _)
SeqMax(x, i) == IF i = 1 THEN x[1] ELSE FMax(SeqMax(x, i - 1), x[i])

RECURSIVE SeqMin(_, _)
SeqMin(x, i) == IF i = 1 THEN x[1] ELSE FMin(SeqMin(x, i - 1), x[i])

FibKeys == {"Swing High", "Swing Low", "0.0", "0.236", "0.382", "0.5", "0.618",
            "0.786", "1.0"}

\* A faulty level measured up from the low: low + ratio*diff
FibLevelFromLow(high, low, r) == FAdd(low, FMul(Num(r, 1000), FSub(high, low)))

\* the level at ratio r/1000: high - ratio*diff
FibLevel(high, low, r) == FSub(high, FMul(Num(r, 1000), FSub(high, low)))

\* A faulty guard that lets a single bar through: if len(df)<1: return {}
FibTooShortOffByOne(frame) == Len(frame) < 1

\* if len(df)<2: return {}
FibTooShort(frame) == Len(frame) < 2

\* The dict returned: a function on FibKeys, or on no key at all ({}).
fibonacci_levels(frame, lookback) ==
    IF FibTooShort(frame) THEN [k \in {} |-> NaN]
    ELSE LET window == DfTail(frame, int(lookback))
             high == SeqMax(Column(window, "High"), Len(window))
             low == SeqMin(Column(window, "Low"), Len(window))
         IN  [k \in FibKeys |->
                CASE k = "Swing High" -> high
                  [] k = "Swing Low" -> low
                  [] k = "0.0" -> high
                  [] k = "0.236" -> FibLevel(high, low, 236)
                  [] k = "0.382" -> FibLevel(high, low, 382)
                  [] k = "0.5" -> FibLevel(high, low, 500)
                  [] k = "0.618" -> FibLevel(high, low, 618)
                  [] k = "0.786" -> FibLevel(high, low, 786)
                  [] k = "1.0" -> low]

\* "if fib_levels: st.table(...) else: st.write('Not enough data ...')"
FibDisplay(fib_levels) ==
    IF DOMAIN fib_levels # {} THEN "table" ELSE "Not enough data for Fibonacci levels."

(***************************************************************************)
(* app10.py: the EMA lines, RSI and MACD of the intraday dashboard.  The   *)
(* script fixes the RSI window at 14 and the MACD spans at 12, 26 and 9    *)
(* and runs on 50 bars or more; window and spans are parameters here, so   *)
(* that frames of a few bars are longer than the window, as the script's   *)
(* frames are.                                                             *)
(***************************************************************************)
\* df["EMA9"], df["EMA21"], df["EMA50"] = df["Close"].ewm(span=...).mean()
app10_ema(frame) ==
    LET close == Column(frame, "Close")
    IN  [status |-> "ok", EMA9 |-> EwmMean(close, 9, TRUE),
         EMA21 |-> EwmMean(close, 21, TRUE), EMA50 |-> EwmMean(close, 50, TRUE)]

\* bb_mid = rolling(20).mean(); bb_std = rolling(20).std();
\* BB_UP = bb_mid + 2 * bb_std; BB_LOW = bb_mid - 2 * bb_std
app10_bollinger(frame, window) ==
    LET close == Column(frame, "Close")
        bb_mid == RollingMean(close, window)
        bb_std == RollingStd(close, window, 1)
        n == Len(frame)
    IN  [status |-> "ok", ma |-> bb_mid,
         upper |-> MkSeq(LAMBDA i : Surd(bb_mid[i], FMul(Float(2), bb_std[i].c), bb_std[i].r), n),
         lower |-> MkSeq(LAMBDA i : Surd(bb_mid[i], FNeg(FMul(Float(2), bb_std[i].c)),
                                         bb_std[i].r), n)]

\* Series.diff()
Diff(x) == MkSeq(LAMBDA i : IF i = 1 THEN NaN ELSE FSub(x[i], x[i - 1]), Len(x))

\* Series.clip(lower=0)
ClipLower0(x) == MkSeq(LAMBDA i : IF FLt(x[i], Float(0)) THEN Float(0) ELSE x[i], Len(x))

\* Series.clip(upper=0)
ClipUpper0(x) == MkSeq(LAMBDA i : IF FGt(x[i], Float(0)) THEN Float(0) ELSE x[i], Len(x))

\* rs = gain.rolling(w).mean() / loss.rolling(w).mean(); 100 - (100 / (1 + rs))
RsiFromMeans(avg_gain, avg_loss) ==
    MkSeq(LAMBDA i :
            LET rs == FDiv(avg_gain[i], avg_loss[i])
            IN  FSub(Float(100), FDiv(Float(100), FAdd(Float(1), rs))),
          Len(avg_gain))

\* A faulty RSI that forgets the minus sign of the losses: loss = delta.clip(upper=0)
app10_rsi_signed_loss(frame, window) ==
    LET delta == Diff(Column(frame, "Close"))
        gain == ClipLower0(delta)
        loss == ClipUpper0(delta)
        avg_gain == RollingMean(gain, window)
        avg_loss == RollingMean(loss, window)
    IN  [status |-> "ok", RSI |-> RsiFromMeans(avg_gain, avg_loss),
         avg_gain |-> avg_gain, avg_loss |-> avg_loss]

app10_rsi(frame, window) ==
    LET delta == Diff(Column(frame, "Close"))
        gain == ClipLower0(delta)
        clipped == ClipUpper0(delta)
        loss == MkSeq(LAMBDA i : FNeg(clipped[i]), Len(delta))
        avg_gain == RollingMean(gain, window)
        avg_loss == RollingMean(loss, window)
    IN  [status |-> "ok", RSI |-> RsiFromMeans(avg_gain, avg_loss),
         avg_gain |-> avg_gain, avg_loss |-> avg_loss]

app10_macd(frame, fast, slow, signal) ==
    LET close == Column(frame, "Close")
        ema12 == EwmMean(close, fast, TRUE)
        ema26 == EwmMean(close, slow, TRUE)
        macd == MkSeq(LAMBDA i : FSub(ema12[i], ema26[i]), Len(frame))
    IN  [status |-> "ok", ema12 |-> ema12, ema26 |-> ema26, MACD |-> macd,
         Signal |-> EwmMean(macd, signal, TRUE)]

\* df.iloc[-1] of a column
Latest(x) == x[Len(x)]

\* int(x) of a float: truncation towards zero
FloatToInt(x) == IF x.n >= 0 THEN x.n \div x.d ELSE -((-x.n) \div x.d)

\* "if <check>: bullish += 1"
Check(passed) == IF passed THEN 1 ELSE 0

\* the six checks on the latest bar; a comparison with NaN is False
app10_bullish(latest) ==
      Check(FGt(latest.close, latest.ema21) /\ FGt(latest.ema21, latest.ema50))
    + Check(FGt(latest.close, latest.ema9))
    + Check(FGt(latest.rsi, Float(55)))
    + Check(FGt(latest.macd, latest.signal))
    + Check(FGt(latest.volume, latest.avg_volume))
    + Check(FGt(latest.close, latest.bb_mid_val))

\* A faulty confidence that rounds to the nearest percent: round((bullish / checks) * 100)
app10_confidence_rounded(bullish) ==
    FloatToInt(FAdd(FMul(FDiv(Float(bullish), Float(6)), Float(100)), Num(1, 2)))

\* confidence = int((bullish / checks) * 100), checks = 6
app10_confidence(bullish) == FloatToInt(FMul(FDiv(Float(bullish), Float(6)), Float(100)))

\* the Final Verdict page (the verdict strings without their emoji)
app10_verdict(confidence) ==
    IF confidence >= 70 THEN "BUY (Bullish)"
    ELSE IF confidence <= 35 THEN "SELL (Bearish)"
    ELSE "HOLD (Sideways)"

\* The safe scalars of the latest bar, read off the indicator columns.
app10_latest(frame, ema, RSI, macd, avg_volume, BB_MID) ==
    [close |-> Latest(Column(frame, "Close")),
     ema9 |-> Latest(ema.EMA9), ema21 |-> Latest(ema.EMA21), ema50 |-> Latest(ema.EMA50),
     rsi |-> Latest(RSI),
     macd |-> Latest(macd.MACD), signal |-> Latest(macd.Signal),
     volume |-> Latest(Column(frame, "Volume")),
     avg_volume |-> Latest(avg_volume),
     bb_mid_val |-> Latest(BB_MID)]

(***************************************************************************)
(* app11.py: safe_bb and BB60_width.  The bands come from the ta package:  *)
(* mavg +/- 2 * population standard deviation over the window.  The script *)
(* passes window 60 and runs on 160 bars or more; the window is the        *)
(* parameter of safe_bb, tried here with frames of a few bars.             *)
(***************************************************************************)
safe_bb(series, window) ==
    LET mavg == RollingMean(series, window)
        mstd == RollingStd(series, window, 0)
        n == Len(series)
    IN  [hband |-> MkSeq(LAMBDA i : Surd(mavg[i], FMul(Float(2), mstd[i].c), mstd[i].r), n),
         lband |-> MkSeq(LAMBDA i : Surd(mavg[i], FNeg(FMul(Float(2), mstd[i].c)), mstd[i].r), n)]

\* df["BB60_width"] = (bb60_h - bb60_l) / df["Close"]
bb_width(frame, window) ==
    LET close == Column(frame, "Close")
        bb == safe_bb(close, window)
    IN  [status |-> "ok",
         BB60_width |-> MkSeq(LAMBDA i : SDiv(SSub(bb.hband[i], bb.lband[i]), close[i]),
                              Len(frame))]

(***************************************************************************)
(* app11.py: PUT_ENTRY, PUT_EXIT and the strategy status.  WR, RSI and the  *)
(* four DI columns come from the ta package; a row carries them as given    *)
(* values, next to Close and MA8.                                           *)
(***************************************************************************)
FGe(x, y) == FLe(y, x)

\* A faulty entry rule with a lower bar for -DI_20: (df["-DI_20"] >= 20)
put_entry_low_di20(row) ==
    /\ FLe(row.WR, Float(-80))
    /\ FLe(row.RSI, Float(40))
    /\ FGe(row.mDI_6, Float(35))
    /\ FLe(row.pDI_6, Float(15))
    /\ FGe(row.mDI_20, Float(20))
    /\ FLe(row.pDI_20, Float(15))

\* df["PUT_ENTRY"]
put_entry(row) ==
    /\ FLe(row.WR, Float(-80))
    /\ FLe(row.RSI, Float(40))
    /\ FGe(row.mDI_6, Float(35))
    /\ FLe(row.pDI_6, Float(15))
    /\ FGe(row.mDI_20, Float(30))
    /\ FLe(row.pDI_20, Float(15))

\* df["DMI_DIFF"] = abs(df["+DI_20"] - df["-DI_20"])
dmi_diff(row) == FAbs(FSub(row.pDI_20, row.mDI_20))

\* df["PUT_EXIT"] = (df["DMI_DIFF"] < 10) | (df["Close"] > df["MA8"])
put_exit(row) == FLt(dmi_diff(row), Float(10)) \/ FGt(row.Close, row.MA8)

\* the Strategy Status panel (the messages without their emoji)
strategy_status(latest) ==
    IF latest.PUT_ENTRY THEN "PUT ENTRY SIGNAL ACTIVE"
    ELSE IF latest.PUT_EXIT THEN "EXIT SIGNAL TRIGGERED"
    ELSE "No Active Signal"

\* df with MA8 = SMA(Close, window) and the ta columns `ind` on every row,
\* after df.dropna(): the rows whose MA8 is defined.  (window stands for the 8
\* of the script.)
app11_rows(frame, window, ind) ==
    LET close == Column(frame, "Close")
        ma == RollingMean(close, window)
        first == IF window > 1 THEN window ELSE 1
    IN  MkSeq(LAMBDA k :
                [Close |-> close[first + k - 1], MA8 |-> ma[first + k - 1],
                 WR |-> ind.WR, RSI |-> ind.RSI, mDI_6 |-> ind.mDI_6,
                 pDI_6 |-> ind.pDI_6, mDI_20 |-> ind.mDI_20, pDI_20 |-> ind.pDI_20],
              Len(frame) - first + 1)

\* the PUT_ENTRY, DMI_DIFF and PUT_EXIT columns added to the rows
app11_signals(rows) ==
    MkSeq(LAMBDA k : [row |-> rows[k], PUT_ENTRY |-> put_entry(rows[k]),
                      DMI_DIFF |-> dmi_diff(rows[k]), PUT_EXIT |-> put_exit(rows[k])],
          Len(rows))

(***************************************************************************)
(* State machine.  A run of a script fetches a frame and applies an        *)
(* indicator function to it: df is the fetched frame, op the function      *)
(* applied ("fetched" before any), args its parameters and ret what it     *)
(* returned.  Every function is pure and reads only some columns, so each  *)
(* is applied on its own, to the frames that vary the columns it reads.    *)
(***************************************************************************)
IsFrameOf(frame, IsBar(_)) == \A i \in 1..Len(frame) : IsBar(frame[i])

\* Frames whose High, Low and Close all vary (volume constant).
IsPriceBar(b) ==
    /\ b.High \in 0..MaxPrice /\ b.Low \in 0..MaxPrice /\ b.Close \in 0..MaxPrice
    /\ b.Volume = 1 /\ ValidBar(b)

PriceFrames ==
    SeqsUpTo({ b \in { Bar(h, l, c, 1) : h \in 0..MaxPrice, l \in 0..MaxPrice,
                                          c \in 0..MaxPrice } : ValidBar(b) }, MaxBars)

IsPriceFrame(frame) == Len(frame) <= MaxBars /\ IsFrameOf(frame, IsPriceBar)

\* Frames whose High and Low vary (Close at the low).
IsRangeBar(b) == IsPriceBar(b) /\ b.Close = b.Low

RangeFrames ==
    SeqsUpTo({ b \in { Bar(h, l, l, 1) : h \in 0..MaxPrice, l \in 0..MaxPrice } :
                 ValidBar(b) }, MaxLen)

IsRangeFrame(frame) == Len(frame) <= MaxLen /\ IsFrameOf(frame, IsRangeBar)

\* Frames whose Close varies (flat bars).
IsCloseBar(b) ==
    b.Close \in 0..MaxClose /\ b.High = b.Close /\ b.Low = b.Close /\ b.Volume = 1

CloseFrames == SeqsUpTo({ Bar(c, c, c, 1) : c \in 0..MaxClose }, MaxLen)

IsCloseFrame(frame) == Len(frame) <= MaxLen /\ IsFrameOf(frame, IsCloseBar)

\* Longer frames of flat bars, for add_dpo: its window must fit with room to
\* spare before the shift and the window can be told apart.
IsDpoBar(b) ==
    b.Close \in 0..MaxPrice /\ b.High = b.Close /\ b.Low = b.Close /\ b.Volume = 1

DpoFrames == SeqsUpTo({ Bar(c, c, c, 1) : c \in 0..MaxPrice }, MaxDpoLen)

IsDpoFrame(frame) == Len(frame) <= MaxDpoLen /\ IsFrameOf(frame, IsDpoBar)

\* Frames whose Close and Volume vary (flat bars, each of the two at one of
\* two levels), at least one bar long: what the intraday dashboard's checks read.
IsTradeBar(b) ==
    b.Close \in {0, 1} /\ b.High = b.Close /\ b.Low = b.Close /\ b.Volume \in {0, 1}

TradeFrames ==
    SeqsUpTo({ Bar(c, c, c, v) : c \in {0, 1}, v \in {0, 1} }, MaxBars) \ {<<>>}

IsTradeFrame(frame) ==
    Len(frame) \in 1..MaxBars /\ IsFrameOf(frame, IsTradeBar)

\* Frames for the PUT strategy: bars with a range (High 1, Low 0) whose Close
\* is at either end, at least one bar long.
IsSignalBar(b) == b.High = 1 /\ b.Low = 0 /\ b.Close \in {0, 1} /\ b.Volume = 1

SignalFrames == SeqsUpTo({ Bar(1, 0, c, 1) : c \in {0, 1} }, MaxBars) \ {<<>>}

IsSignalFrame(frame) == Len(frame) \in 1..MaxBars /\ IsFrameOf(frame, IsSignalBar)

\* Values of the ta columns on either side of the strategy's thresholds.
IndicatorValues ==
    [WR : {Float(-80), Float(-79)}, RSI : {Float(40), Float(41)},
     mDI_6 : {Float(35), Float(34)}, pDI_6 : {Float(15), Float(16)},
     mDI_20 : {Float(30), Float(29), Float(20)}, pDI_20 : {Float(15), Float(16)}]

\* Frames whose Volume varies.
IsVolumeBar(b) ==
    b.Volume \in 0..MaxVol /\ b.High = 1 /\ b.Low = 1 /\ b.Close = 1

VolumeFrames == SeqsUpTo({ Bar(1, 1, 1, v) : v \in 0..MaxVol }, MaxLen)

IsVolumeFrame(frame) == Len(frame) <= MaxLen /\ IsFrameOf(frame, IsVolumeBar)

\* sidebar number_input ranges, cut at MaxWin
MacdSpans == 1..MaxWin

SignalSpans == 1..MaxSignal

BBPeriods == 1..MaxWin

\* the windows tried in place of app10.py's rolling(14)
RsiWindows == 1..MaxWin

\* bb_std = number_input("BB stddev", 0.1, 5.0, 2.0, 0.1)
BBStds == {Num(1, 10), Float(2)}

\* dpo_period = number_input("DPO period", 2, 100, 20)
DpoPeriods == 2..MaxDpoPeriod

\* adx_period = number_input("ADX (DMI) period", 2, 50, 14)
AdxPeriods == 2..MaxAdxPeriod

CvoSpans == 1..MaxWin

FibLookbacks == 2..MaxWin

Frames == PriceFrames \cup RangeFrames \cup CloseFrames \cup VolumeFrames \cup DpoFrames
              \cup TradeFrames \cup SignalFrames

Init ==
    /\ df \in Frames
    /\ op = "fetched"
    /\ args = [none |-> 0]
    /\ ret = [status |-> "none"]

CallAddBollinger ==
    /\ op = "fetched"
    /\ IsCloseFrame(df)
    /\ \E period \in BBPeriods, num_std \in BBStds :
        /\ op' = "add_bollinger"
        /\ args' = [period |-> period, num_std |-> num_std]
        /\ ret' = add_bollinger(df, period, num_std)
    /\ UNCHANGED df

CallAddMacd ==
    /\ op = "fetched"
    /\ IsCloseFrame(df)
    /\ \E fast \in MacdSpans, slow \in MacdSpans, signal \in SignalSpans :
        /\ op' = "add_macd"
        /\ args' = [fast |-> fast, slow |-> slow, signal |-> signal]
        /\ ret' = add_macd(df, fast, slow, signal)
    /\ UNCHANGED df

CallAddDpo ==
    /\ op = "fetched"
    /\ IsCloseFrame(df) \/ IsDpoFrame(df)
    /\ \E period \in DpoPeriods :
        /\ op' = "add_dpo"
        /\ args' = [period |-> period]
        /\ ret' = add_dpo(df, period)
    /\ UNCHANGED df

CallAddCvo ==
    /\ op = "fetched"
    /\ IsVolumeFrame(df)
    /\ \E short \in CvoSpans, long \in CvoSpans :
        /\ op' = "add_cvo"
        /\ args' = [short |-> short, long |-> long]
        /\ ret' = add_cvo(df, short, long)
    /\ UNCHANGED df

CallAddAdx ==
    /\ op = "fetched"
    /\ IsPriceFrame(df) \/ IsRangeFrame(df)
    /\ \E period \in AdxPeriods :
        /\ op' = "add_adx"
        /\ args' = [period |-> period]
        /\ ret' = add_adx(df, period)
    /\ UNCHANGED df

\* fib_levels = fibonacci_levels(df_ind, fib_lookback), then the Fibonacci panel
CallFibonacciLevels ==
    /\ op = "fetched"
    /\ IsRangeFrame(df)
    /\ \E lookback \in FibLookbacks :
        LET fib_levels == fibonacci_levels(df, lookback)
        IN  /\ op' = "fibonacci_levels"
            /\ args' = [lookback |-> lookback]
            /\ ret' = [levels |-> fib_levels, display |-> FibDisplay(fib_levels)]
    /\ UNCHANGED df

App10Ema ==
    /\ op = "fetched"
    /\ IsCloseFrame(df)
    /\ op' = "app10_ema"
    /\ args' = [none |-> 0]
    /\ ret' = app10_ema(df)
    /\ UNCHANGED df

App10Rsi ==
    /\ op = "fetched"
    /\ IsCloseFrame(df)
    /\ \E window \in RsiWindows :
        /\ op' = "app10_rsi"
        /\ args' = [window |-> window]
        /\ ret' = app10_rsi(df, window)
    /\ UNCHANGED df

App10Bollinger ==
    /\ op = "fetched"
    /\ IsCloseFrame(df)
    /\ \E window \in BBPeriods :
        /\ op' = "app10_bollinger"
        /\ args' = [period |-> window, num_std |-> Float(2)]
        /\ ret' = app10_bollinger(df, window)
    /\ UNCHANGED df

\* The indicator columns, the confidence score and the Final Verdict page.
\* rsi_window stands for the script's 14, window for its 20 (BB_MID and the
\* average volume), fast, slow and signal for 12, 26 and 9.  Each column is
\* computed once per choice of its own parameters.
App10Verdict ==
    /\ op = "fetched"
    /\ IsTradeFrame(df)
    /\ \E ema \in {app10_ema(df)} :
       \E fast \in SignalSpans, slow \in SignalSpans, signal \in SignalSpans :
        /\ fast < slow
        /\ \E macd \in {app10_macd(df, fast, slow, signal)} :
           \E rsi_window \in SignalSpans :
           \E RSI \in {app10_rsi(df, rsi_window).RSI} :
           \E window \in SignalSpans :
           \E latest \in {app10_latest(df, ema, RSI, macd,
                                       RollingMean(Column(df, "Volume"), window),
                                       app10_bollinger(df, window).ma)} :
           \E bullish \in {app10_bullish(latest)} :
           \E confidence \in {app10_confidence(bullish)} :
            /\ op' = "app10_verdict"
            /\ args' = [rsi_window |-> rsi_window, window |-> window, fast |-> fast,
                        slow |-> slow, signal |-> signal]
            /\ ret' = [status |-> "ok", latest |-> latest, bullish |-> bullish,
                       confidence |-> confidence, verdict |-> app10_verdict(confidence)]
    /\ UNCHANGED df

App10Macd ==
    /\ op = "fetched"
    /\ IsCloseFrame(df)
    /\ \E fast \in SignalSpans, slow \in SignalSpans, signal \in SignalSpans :
        /\ op' = "app10_macd"
        /\ args' = [fast |-> fast, slow |-> slow, signal |-> signal]
        /\ ret' = app10_macd(df, fast, slow, signal)
    /\ UNCHANGED df

App11BBWidth ==
    /\ op = "fetched"
    /\ IsCloseFrame(df)
    /\ \E window \in BBPeriods :
        /\ op' = "bb_width"
        /\ args' = [window |-> window]
        /\ ret' = bb_width(df, window)
    /\ UNCHANGED df

\* The signal columns and the Strategy Status panel.  MIN_BARS exceeds every
\* window of the script, so at least one row is left after dropna: here the
\* frame is at least as long as the window.
App11Strategy ==
    /\ op = "fetched"
    /\ IsSignalFrame(df)
    /\ \E window \in SignalSpans, ind \in IndicatorValues :
        /\ Len(df) >= window
        /\ \E signals \in {app11_signals(app11_rows(df, window, ind))} :
            /\ op' = "app11_strategy"
            /\ args' = [window |-> window]
            /\ ret' = [status |-> "ok", signals |-> signals,
                       strategy_status |-> strategy_status(Latest(signals))]
    /\ UNCHANGED df

Next ==
    \/ CallAddBollinger
    \/ CallAddMacd
    \/ CallAddDpo
    \/ CallAddCvo
    \/ CallAddAdx
    \/ CallFibonacciLevels
    \/ App10Ema
    \/ App10Rsi
    \/ App10Bollinger
    \/ App10Macd
    \/ App10Verdict
    \/ App11BBWidth
    \/ App11Strategy

Spec == Init /\ [][Next]_vars

(***************************************************************************)
(* Properties.                                                             *)
(***************************************************************************)
Defined(x) == IsNum(x)

\* Per-bar reference values, read off the bars themselves (bar i is df[i]).
RECURSIVE CloseSum(_, _, _)
CloseSum(frame, lo, hi) ==
    IF lo > hi THEN 0 ELSE CloseSum(frame, lo, hi - 1) + frame[hi].Close

\* the simple moving average of the w closes ending at bar i
SMAAtBar(frame, w, i) == IF i < w THEN NaN ELSE Num(CloseSum(frame, i - w + 1, i), w)

Max2(a, b) == IF a < b THEN b ELSE a

\* true range and directional movement of bar i >= 2 against bar i-1
TRAtBar(frame, i) ==
    Max2(Max2(frame[i].High - frame[i].Low, Abs(frame[i].High - frame[i - 1].Close)),
         Abs(frame[i].Low - frame[i - 1].Close))

UpAtBar(frame, i) == frame[i].High - frame[i - 1].High

DownAtBar(frame, i) == frame[i - 1].Low - frame[i].Low

PlusDMAtBar(frame, i) ==
    IF UpAtBar(frame, i) > DownAtBar(frame, i) /\ UpAtBar(frame, i) > 0
    THEN UpAtBar(frame, i) ELSE 0

MinusDMAtBar(frame, i) ==
    IF DownAtBar(frame, i) > UpAtBar(frame, i) /\ DownAtBar(frame, i) > 0
    THEN DownAtBar(frame, i) ELSE 0

RECURSIVE BarSum(_, _, _, _)
BarSum(F(_, _), frame, lo, hi) ==
    IF lo > hi THEN 0 ELSE BarSum(F, frame, lo, hi - 1) + F(frame, hi)

\* the w bars ending at bar i all have a previous bar
HasWindow(w, i) == i - w + 1 >= 2

TRSumAtBar(frame, w, i) == BarSum(TRAtBar, frame, i - w + 1, i)

\* 100 * sum(DM) / sum(TR) over the w bars ending at bar i
DIAtBar(DM(_, _), frame, w, i) ==
    IF ~HasWindow(w, i) \/ TRSumAtBar(frame, w, i) = 0 THEN NaN
    ELSE Num(100 * BarSum(DM, frame, i - w + 1, i), TRSumAtBar(frame, w, i))

DXAtBar(frame, w, i) ==
    LET p == DIAtBar(PlusDMAtBar, frame, w, i)
        m == DIAtBar(MinusDMAtBar, frame, w, i)
    IN  IF IsNaN(p) \/ IsZero(FAdd(p, m)) THEN NaN
        ELSE FDiv(FMul(Float(100), FAbs(FSub(p, m))), FAdd(p, m))

RECURSIVE DXSumAtBar(_, _, _, _)
DXSumAtBar(frame, w, lo, hi) ==
    IF lo > hi THEN Float(0)
    ELSE FAdd(DXSumAtBar(frame, w, lo, hi - 1), DXAtBar(frame, w, hi))

\* the mean of DX over the w bars ending at bar i (NaN if any is undefined)
ADXAtBar(frame, w, i) ==
    IF i - w + 1 < 2 THEN NaN ELSE FDiv(DXSumAtBar(frame, w, i - w + 1, i), Float(w))

\* the recursive average at index 2 (the second bar) of a series seeded with its
\* first value: alpha*x2 + (1-alpha)*x1 = x1 + alpha*(x2 - x1)
SecondEma(x1, x2, span) == FAdd(Float(x1), FMul(Alpha(span), Float(x2 - x1)))

\* C1: every series returned by add_bollinger, add_macd, add_dpo, add_cvo and
\* add_adx has the length of the input frame (0 for an empty frame) and is
\* aligned with it index by index: position i holds the value computed for bar
\* i, the warm-up positions are undefined at the front, and nothing is dropped
\* or shifted.  For ADX, +DI, -DI and ADX at index i are the ones of bar i.
C1_SeriesAlignedWithInput ==
    /\ op = "add_bollinger" =>
        /\ ret.status = "ok"
        /\ Len(ret.upper) = Len(df) /\ Len(ret.ma) = Len(df) /\ Len(ret.lower) = Len(df)
        /\ \A i \in 1..Len(df) :
            /\ ret.ma[i] = SMAAtBar(df, args.period, i)
            /\ i < args.period => SIsNaN(ret.upper[i]) /\ SIsNaN(ret.lower[i])
            /\ (i >= args.period /\ args.period >= 2) =>
                    ~SIsNaN(ret.upper[i]) /\ ~SIsNaN(ret.lower[i])
    /\ op = "add_macd" =>
        /\ ret.status = "ok"
        /\ Len(ret.macd) = Len(df) /\ Len(ret.macd_signal) = Len(df)
        /\ Len(ret.macd_hist) = Len(df)
        /\ \A i \in 1..Len(df) :
            Defined(ret.macd[i]) /\ Defined(ret.macd_signal[i]) /\ Defined(ret.macd_hist[i])
        /\ Len(df) >= 1 => IsZero(ret.macd[1]) /\ IsZero(ret.macd_signal[1])
        /\ Len(df) >= 2 =>
            ret.macd[2] = FSub(SecondEma(df[1].Close, df[2].Close, args.fast),
                               SecondEma(df[1].Close, df[2].Close, args.slow))
    /\ op = "add_dpo" =>
        /\ ret.status = "ok"
        /\ Len(ret.dpo) = Len(df)
        /\ \A i \in 1..Len(df) :
            ret.dpo[i] = IF i <= DpoShift(args.period) THEN NaN
                         ELSE FSub(Float(df[i - DpoShift(args.period)].Close),
                                   SMAAtBar(df, args.period, i))
    /\ op = "add_cvo" =>
        /\ ret.status = "ok"
        /\ Len(ret.cvo) = Len(df) /\ Len(ret.vol_short) = Len(df)
        /\ Len(ret.vol_long) = Len(df)
        /\ \A i \in 1..Len(df) : Defined(ret.vol_short[i]) /\ Defined(ret.vol_long[i])
        /\ Len(df) >= 1 =>
            ret.vol_short[1] = Float(df[1].Volume) /\ ret.vol_long[1] = Float(df[1].Volume)
        /\ Len(df) >= 2 =>
            /\ ret.vol_short[2] = SecondEma(df[1].Volume, df[2].Volume, args.short)
            /\ ret.vol_long[2] = SecondEma(df[1].Volume, df[2].Volume, args.long)
    /\ op = "add_adx" =>
        /\ ret.status = "ok"
        /\ Len(ret.plus_di) = Len(df) /\ Len(ret.minus_di) = Len(df)
        /\ Len(ret.adx) = Len(df)
        /\ \A i \in 1..Len(df) :
            /\ ret.plus_di[i] = DIAtBar(PlusDMAtBar, df, args.period, i)
            /\ ret.minus_di[i] = DIAtBar(MinusDMAtBar, df, args.period, i)
            /\ ret.adx[i] = ADXAtBar(df, args.period, i)

\* C1 witness: add_adx with period 2 on three bars returned a three-value +DI
\* whose first two positions are the undefined warm-up and whose third is the
\* positive +DI of the third bar.
C1_Witness ==
    /\ op = "add_adx" /\ args.period = 2 /\ Len(df) = 3
    /\ Len(ret.plus_di) = 3
    /\ IsNaN(ret.plus_di[1]) /\ IsNaN(ret.plus_di[2])
    /\ Defined(ret.plus_di[3]) /\ FGt(ret.plus_di[3], Float(0))

\* C2: an indicator asked for more bars than the fetched frame holds fails
\* with InsufficientData and returns no series.  Checked on the frames the
\* fetch gate lets through, for the rolling-window indicators of tradingbot.py:
\* Bollinger(period) and DPO(period) need period bars, ADX(period) needs
\* period + 1.
C2_InsufficientDataRaised ==
    /\ (op = "add_bollinger" /\ ~df_empty(df) /\ Len(df) < args.period) =>
            ret.status = "InsufficientData"
    /\ (op = "add_dpo" /\ ~df_empty(df) /\ Len(df) < args.period) =>
            ret.status = "InsufficientData"
    /\ (op = "add_adx" /\ ~df_empty(df) /\ Len(df) < args.period + 1) =>
            ret.status = "InsufficientData"

\* C3: add_macd called on a fetched frame with a fast span that is not below
\* the slow span fails with InvalidParameter and returns no series.  (The
\* sidebar admits no span below 1, so a non-positive window never reaches the
\* functions; fast >= slow does.)
C3_InvalidParameterRaised ==
    (op = "add_macd" /\ ~df_empty(df) /\ args.fast >= args.slow) =>
        /\ ret.status = "InvalidParameter"
        /\ Len(ret.macd) = 0 /\ Len(ret.macd_signal) = 0 /\ Len(ret.macd_hist) = 0

\* C4: the RSI is undefined on its first `window` indexes and, from then on,
\* equals 100 wherever the average loss is 0, a constant series included.
C4_RsiZeroLossIs100 ==
    op = "app10_rsi" =>
        \A i \in 1..Len(df) :
            /\ i <= args.window => IsNaN(ret.RSI[i])
            /\ (i > args.window /\ IsZero(ret.avg_loss[i])) => ret.RSI[i] = Float(100)

InRange0To100(x) == Defined(x) /\ FLe(Float(0), x) /\ FLe(x, Float(100))

FollowsSeedRule(y, x, span) ==
    /\ Len(y) = Len(x)
    /\ \A i \in 1..Len(x) :
        y[i] = IF i = 1 THEN x[1]
               ELSE FAdd(FMul(Alpha(span), x[i]),
                         FMul(FSub(Float(1), Alpha(span)), y[i - 1]))

\* C6: every exponential average, in every script, is seeded with the first
\* value of its input and continued by the recursion
\* EMA[i] = alpha*x[i] + (1-alpha)*EMA[i-1], alpha = 2/(span+1).
C6_OneSeedingRule ==
    /\ op = "add_macd" =>
        FollowsSeedRule(ret.macd_signal, ret.macd, args.signal)
    /\ op = "add_cvo" =>
        /\ FollowsSeedRule(ret.vol_short, Column(df, "Volume"), args.short)
        /\ FollowsSeedRule(ret.vol_long, Column(df, "Volume"), args.long)
    /\ op = "app10_ema" =>
        /\ FollowsSeedRule(ret.EMA9, Column(df, "Close"), 9)
        /\ FollowsSeedRule(ret.EMA21, Column(df, "Close"), 21)
        /\ FollowsSeedRule(ret.EMA50, Column(df, "Close"), 50)
    /\ op = "app10_macd" =>
        /\ FollowsSeedRule(ret.ema12, Column(df, "Close"), args.fast)
        /\ FollowsSeedRule(ret.ema26, Column(df, "Close"), args.slow)
        /\ FollowsSeedRule(ret.Signal, ret.MACD, args.signal)

\* the rolling sum of the true range behind index i of add_adx's output
\* (NaN while the window is not full)
TrSmoothAt(frame, period, i) ==
    IF HasWindow(period, i) THEN Float(TRSumAtBar(frame, period, i)) ELSE NaN

\* C7: a zero denominator makes the value undefined and never makes the
\* operation fail: CVO is undefined exactly where the long volume average is
\* 0, +DI and -DI are undefined where the true-range sum is 0, DX (hence ADX)
\* is undefined where +DI + -DI is 0, and every other value is finite.
C7_ZeroDenominatorsUndefined ==
    /\ op = "add_cvo" =>
        /\ ret.status = "ok"
        /\ \A i \in 1..Len(df) :
            /\ IsNaN(ret.cvo[i]) <=> IsZero(ret.vol_long[i])
            /\ ~IsNaN(ret.cvo[i]) => Defined(ret.cvo[i])
    /\ op = "add_adx" =>
        /\ ret.status = "ok"
        /\ \A i \in 1..Len(df) :
            /\ IsZero(TrSmoothAt(df, args.period, i)) =>
                    IsNaN(ret.plus_di[i]) /\ IsNaN(ret.minus_di[i])
            /\ (Defined(TrSmoothAt(df, args.period, i))
                    /\ ~IsZero(TrSmoothAt(df, args.period, i))) =>
                    Defined(ret.plus_di[i]) /\ Defined(ret.minus_di[i])
            /\ (Defined(ret.plus_di[i]) /\ IsZero(FAdd(ret.plus_di[i], ret.minus_di[i]))) =>
                    IsNaN(ret.adx[i])
            /\ ~IsNaN(ret.adx[i]) => Defined(ret.adx[i])

\* C7 witness: add_cvo returned an undefined CVO at an index where the long
\* volume average is 0 while the short one is not, and a defined CVO elsewhere.
C7_Witness ==
    /\ op = "add_cvo"
    /\ \E i, j \in 1..Len(df) :
        /\ IsZero(ret.vol_long[i]) /\ ~IsZero(ret.vol_short[i]) /\ IsNaN(ret.cvo[i])
        /\ Defined(ret.cvo[j]) /\ ~IsZero(ret.cvo[j])

\* C8: the Bollinger width (upper - lower) / close is undefined wherever the
\* close is 0.
C8_WidthUndefinedAtZeroClose ==
    op = "bb_width" =>
        \A i \in 1..Len(df) : df[i].Close = 0 => SIsNaN(ret.BB60_width[i])

FibRatios == <<0, 236, 382, 500, 618, 786, 1000>>

FibRatioKeys == <<"0.0", "0.236", "0.382", "0.5", "0.618", "0.786", "1.0">>

\* the bars fibonacci_levels looks at: the last `lookback` bars of the frame
InLookback(frame, lookback, i) == i \in 1..Len(frame) /\ i > Len(frame) - lookback

\* h is the highest High (l the lowest Low) among the bars in the lookback
IsSwingHigh(frame, lookback, h) ==
    /\ \E i \in 1..Len(frame) : InLookback(frame, lookback, i) /\ frame[i].High = h
    /\ \A i \in 1..Len(frame) : InLookback(frame, lookback, i) => frame[i].High <= h

IsSwingLow(frame, lookback, l) ==
    /\ \E i \in 1..Len(frame) : InLookback(frame, lookback, i) /\ frame[i].Low = l
    /\ \A i \in 1..Len(frame) : InLookback(frame, lookback, i) => frame[i].Low >= l

\* C9: with at least 2 bars, fibonacci_levels returns the swing high H (the
\* highest High of the last `lookback` bars), the swing low L (their lowest
\* Low) and the level H - r*(H - L) for each ratio r of 0, 0.236, 0.382, 0.5,
\* 0.618, 0.786 and 1; so level 0.0 = H, level 1.0 = L, level 0.5 is their
\* midpoint, and the levels never rise as the ratio grows (they fall strictly
\* when H > L).
C9_FibonacciLevels ==
    (op = "fibonacci_levels" /\ Len(df) >= 2) =>
        \E h, l \in 0..MaxPrice :
            /\ IsSwingHigh(df, args.lookback, h) /\ IsSwingLow(df, args.lookback, l)
            /\ ret.levels["Swing High"] = Float(h) /\ ret.levels["Swing Low"] = Float(l)
            /\ ret.levels["0.0"] = Float(h) /\ ret.levels["1.0"] = Float(l)
            /\ ret.levels["0.5"] = Num(h + l, 2)
            /\ \A k \in 1..Len(FibRatios) :
                ret.levels[FibRatioKeys[k]] = Num(1000 * h - FibRatios[k] * (h - l), 1000)
            /\ \A k \in 1..(Len(FibRatios) - 1) :
                /\ FLe(ret.levels[FibRatioKeys[k + 1]], ret.levels[FibRatioKeys[k]])
                /\ h > l => FLt(ret.levels[FibRatioKeys[k + 1]], ret.levels[FibRatioKeys[k]])

\* C9 witness: fibonacci_levels looked at fewer bars than the frame holds and
\* returned a swing high above the swing low, with level 0.5 strictly between.
C9_Witness ==
    /\ op = "fibonacci_levels" /\ args.lookback < Len(df)
    /\ FLt(ret.levels["Swing Low"], ret.levels["Swing High"])
    /\ FLt(ret.levels["Swing Low"], ret.levels["0.5"])
    /\ FLt(ret.levels["0.5"], ret.levels["Swing High"])

\* C10: with fewer than 2 bars the Fibonacci operation gives no levels and
\* reports that there is not enough data; with 2 bars or more it gives the full
\* set of levels, every one of them defined.
C10_FibonacciNeedsTwoBars ==
    op = "fibonacci_levels" =>
        /\ Len(df) < 2 =>
            /\ DOMAIN ret.levels = {}
            /\ ret.display = "Not enough data for Fibonacci levels."
        /\ Len(df) >= 2 =>
            /\ DOMAIN ret.levels = FibKeys
            /\ \A k \in FibKeys : Defined(ret.levels[k])
            /\ ret.display = "table"

\* C10 witness: fibonacci_levels was applied to a single bar and answered with
\* the empty mapping and the not-enough-data message.
C10_Witness ==
    /\ op = "fibonacci_levels" /\ Len(df) = 1
    /\ DOMAIN ret.levels = {}
    /\ ret.display = "Not enough data for Fibonacci levels."

RECURSIVE CloseSqSum(_, _, _)
CloseSqSum(frame, lo, hi) ==
    IF lo > hi THEN 0
    ELSE CloseSqSum(frame, lo, hi - 1) + frame[hi].Close * frame[hi].Close

\* the sample variance of the w >= 2 closes ending at bar i >= w:
\* (w*sum(x^2) - sum(x)^2) / (w*(w-1))
VarAtBar(frame, w, i) ==
    Num(w * CloseSqSum(frame, i - w + 1, i)
          - CloseSum(frame, i - w + 1, i) * CloseSum(frame, i - w + 1, i),
        w * (w - 1))

\* a rational as a band value
Rational(x) == Surd(x, Float(0), 1)

\* x <= y for band values
SLe(x, y) == ~SIsNaN(x) /\ ~SIsNaN(y) /\ SSign(SSub(y, x)) >= 0

\* the square of a band difference q or q*sqrt(r)
SSquare(s) == FAdd(FMul(s.a, s.a), FMul(FMul(s.b, s.b), Float(s.r)))

\* C11: Bollinger bands (tradingbot.py's add_bollinger and app10.py's bands):
\* mid is the SMA of the close over the window; wherever the bands are defined
\* upper - mid = mid - lower = k * (standard deviation of the same window's
\* closes), hence lower <= mid <= upper for k >= 0; and where all closes of
\* the window are equal, upper = mid = lower.
C11_BollingerOrdered ==
    op \in {"add_bollinger", "app10_bollinger"} =>
        \A i \in 1..Len(df) :
            /\ ret.ma[i] = SMAAtBar(df, args.period, i)
            /\ SIsNaN(ret.upper[i]) <=> SIsNaN(ret.lower[i])
            /\ ~SIsNaN(ret.upper[i]) =>
                LET mid == Rational(ret.ma[i])
                    above == SSub(ret.upper[i], mid)
                    below == SSub(mid, ret.lower[i])
                    var == VarAtBar(df, args.period, i)
                IN  /\ i >= args.period /\ args.period >= 2
                    /\ above = below
                    /\ IsZero(above.a) \/ IsZero(above.b)
                    /\ SSquare(above) = FMul(FMul(args.num_std, args.num_std), var)
                    /\ SLe(ret.lower[i], mid) /\ SLe(mid, ret.upper[i])
                    /\ IsZero(var) => ret.upper[i] = mid /\ ret.lower[i] = mid

\* C11 witness: add_bollinger returned, at an index whose window holds
\* different closes, an upper band strictly above the mid and a lower band
\* strictly below it.
C11_Witness ==
    /\ op = "add_bollinger"
    /\ \E i \in 1..Len(df) :
        /\ ~SIsNaN(ret.upper[i])
        /\ SSign(SSub(ret.upper[i], Rational(ret.ma[i]))) > 0
        /\ SSign(SSub(Rational(ret.ma[i]), ret.lower[i])) > 0

\* C12: on a frame of at least window + 1 bars, the RSI computed from the
\* rolling means of gains and losses is, at every index, either undefined or a
\* value in [0, 100].
C12_RsiBounded ==
    (op = "app10_rsi" /\ Len(df) >= args.window + 1) =>
        \A i \in 1..Len(df) : IsNaN(ret.RSI[i]) \/ InRange0To100(ret.RSI[i])

\* C12 witness: the RSI of a frame with both a rise and a fall in one window is
\* strictly between 0 and 100 at some index, and 100 or 0 at another.
C12_Witness ==
    /\ op = "app10_rsi" /\ Len(df) >= args.window + 1
    /\ \E i, j \in 1..Len(df) :
        /\ Defined(ret.RSI[i]) /\ FGt(ret.RSI[i], Float(0)) /\ FLt(ret.RSI[i], Float(100))
        /\ ret.RSI[j] \in {Float(0), Float(100)}

\* y is the simple moving average of the closes over w bars: as long as the
\* frame, undefined before the w-th bar, and from the w-th bar on a number
\* whose w-fold is the sum of the w closes ending at that bar
IsSmaOfClose(y, frame, w) ==
    /\ Len(y) = Len(frame)
    /\ \A i \in 1..Len(frame) :
        /\ i < w => IsNaN(y[i])
        /\ i >= w => Defined(y[i]) /\ FMul(y[i], Float(w)) = Float(CloseSum(frame, i - w + 1, i))

\* C13: the SMA series has the length of the frame, is undefined at every
\* index i < w-1 and, at every index i >= w-1, is defined and equals the
\* arithmetic mean of the closes at i-w+1..i; this holds of add_bollinger's mid
\* band and of the average add_dpo subtracts.
C13_SmaIsWindowMean ==
    /\ op \in {"add_bollinger", "app10_bollinger"} =>
        IsSmaOfClose(ret.ma, df, args.period)
    /\ op = "add_dpo" =>
        /\ Len(ret.dpo) = Len(df)
        /\ \A i \in 1..Len(df) :
            /\ i < args.period => IsNaN(ret.dpo[i])
            /\ (i >= args.period /\ i > DpoShift(args.period)) =>
                FMul(FSub(Float(df[i - DpoShift(args.period)].Close), ret.dpo[i]),
                     Float(args.period))
                    = Float(CloseSum(df, i - args.period + 1, i))

\* C13 witness: add_bollinger with a window of 2 or more on a longer frame
\* returned a mid band that is undefined before the window fills and then
\* takes two different defined values.
C13_Witness ==
    /\ op = "add_bollinger" /\ args.period >= 2 /\ Len(df) > args.period
    /\ IsNaN(ret.ma[args.period - 1])
    /\ Defined(ret.ma[args.period]) /\ Defined(ret.ma[args.period + 1])
    /\ ret.ma[args.period] # ret.ma[args.period + 1]

\* EMA(close, span) at bar i, by the recursion from the first close
RECURSIVE EmaOfCloseAtBar(_, _, _)
EmaOfCloseAtBar(frame, span, i) ==
    IF i = 1 THEN Float(frame[1].Close)
    ELSE FAdd(FMul(Alpha(span), Float(frame[i].Close)),
              FMul(FSub(Float(1), Alpha(span)), EmaOfCloseAtBar(frame, span, i - 1)))

\* C14: add_macd returns macdLine = EMA(close, fast) - EMA(close, slow),
\* signalLine = EMA(macdLine, signal) and a histogram with
\* histogram[i] = macdLine[i] - signalLine[i] at every index i, index 0
\* included.
C14_MacdHistogram ==
    op = "add_macd" =>
        /\ Len(ret.macd) = Len(df) /\ Len(ret.macd_hist) = Len(df)
        /\ \A i \in 1..Len(df) :
            /\ ret.macd[i] = FSub(EmaOfCloseAtBar(df, args.fast, i),
                                  EmaOfCloseAtBar(df, args.slow, i))
            /\ ret.macd_hist[i] = FSub(ret.macd[i], ret.macd_signal[i])
        /\ FollowsSeedRule(ret.macd_signal, ret.macd, args.signal)

\* C14 witness: add_macd with fast < slow returned a histogram that is 0 at
\* index 0 and not 0 at a later index, where the MACD line and the signal line
\* differ.
C14_Witness ==
    /\ op = "add_macd" /\ args.fast < args.slow /\ Len(df) >= 2
    /\ IsZero(ret.macd_hist[1])
    /\ \E i \in 2..Len(df) :
        ~IsZero(ret.macd_hist[i]) /\ ret.macd[i] # ret.macd_signal[i]

\* floor(w/2) + 1
FloorHalfPlus1(w) == (w - (w % 2)) \div 2 + 1

\* C15: add_dpo shifts the close by floor(window/2) + 1 bars, for odd and even
\* windows alike: DPO[i] = close[i-shift] - SMA(close, window)[i], and DPO[i]
\* is undefined exactly at the indexes i < max(shift, window-1).
C15_DpoShiftAndWarmup ==
    op = "add_dpo" =>
        LET w == args.period
            shift == FloorHalfPlus1(w)
            first == IF shift > w - 1 THEN shift ELSE w - 1
        IN  /\ Len(ret.dpo) = Len(df)
            /\ \A i \in 0..(Len(df) - 1) :
                /\ IsNaN(ret.dpo[i + 1]) <=> i < first
                /\ i >= first =>
                    ret.dpo[i + 1] = FSub(Float(df[i + 1 - shift].Close),
                                          SMAAtBar(df, w, i + 1))

\* C15 witness: add_dpo with window 5 (shift 3) returned a DPO that is still
\* undefined at index 3, where the shifted close exists but the window is not
\* full, and is a non-zero number at index 4.
C15_Witness ==
    /\ op = "add_dpo" /\ args.period = 5 /\ Len(df) >= 5
    /\ IsNaN(ret.dpo[4])
    /\ Defined(ret.dpo[5]) /\ ~IsZero(ret.dpo[5])

\* a > b between two defined values; a check on an undefined value fails
Above(a, b) == Defined(a) /\ Defined(b) /\ FGt(a, b)

\* the checks, numbered 1..6, that pass on the latest bar
PassedChecks(l) ==
    { k \in 1..6 :
        CASE k = 1 -> Above(l.close, l.ema21) /\ Above(l.ema21, l.ema50)
          [] k = 2 -> Above(l.close, l.ema9)
          [] k = 3 -> Above(l.rsi, Float(55))
          [] k = 4 -> Above(l.macd, l.signal)
          [] k = 5 -> Above(l.volume, l.avg_volume)
          [] k = 6 -> Above(l.close, l.bb_mid_val) }

\* C16: in the intraday dashboard bullish (0..6) counts the six checks that
\* pass on the latest bar, a check on an undefined value counting as failed;
\* the confidence is floor(100 * bullish / 6); and the verdict is exactly one
\* of BUY, SELL and HOLD: BUY iff bullish >= 5 (confidence >= 70), SELL iff
\* bullish <= 2 (confidence <= 35), HOLD iff bullish is 3 or 4.
C16_ConfidenceAndVerdict ==
    op = "app10_verdict" =>
        /\ ret.bullish = Cardinality(PassedChecks(ret.latest))
        /\ ret.bullish \in 0..6
        /\ ret.confidence = (100 * ret.bullish) \div 6
        /\ ret.verdict \in {"BUY (Bullish)", "SELL (Bearish)", "HOLD (Sideways)"}
        /\ ret.verdict = "BUY (Bullish)" <=> ret.bullish >= 5
        /\ ret.verdict = "BUY (Bullish)" <=> ret.confidence >= 70
        /\ ret.verdict = "SELL (Bearish)" <=> ret.bullish <= 2
        /\ ret.verdict = "SELL (Bearish)" <=> ret.confidence <= 35
        /\ ret.verdict = "HOLD (Sideways)" <=> ret.bullish \in {3, 4}

\* C16 witness: with the RSI of the latest bar undefined, four of the other
\* checks passed: confidence 66 and the verdict HOLD.
C16_Witness ==
    /\ op = "app10_verdict"
    /\ IsNaN(ret.latest.rsi)
    /\ ret.bullish = 4 /\ ret.confidence = 66
    /\ ret.verdict = "HOLD (Sideways)"

\* the DMI-contraction exit condition of a row: |+DI_20 - -DI_20| < 10
DmiContracted(row) ==
    LET d == row.pDI_20.n - row.mDI_20.n
    IN  (IF d < 0 THEN -d ELSE d) < 10

====
